---- MODULE Spec2Model ----
(***************************************************************************)
(* Model of the bulk permission export/import plugin                       *)
(* (src/plugins/bulk_perms.py): exportperms writes a guild's roles,        *)
(* channels and permission overwrites as CSV rows, importperms parses such *)
(* rows against the live guild, previews the change notes, waits for the   *)
(* invoker's confirmation and then runs the scheduled edits one by one.    *)
(*                                                                         *)
(* Strings are sequences of one-character strings, so that prefix tests,   *)
(* removeprefix, split, int() and "{} ({})".format are computed.  A CSV    *)
(* file is the sequence of its rows, a row the sequence of its cells (the  *)
(* csv module's quoting is a library round trip on cells and is not        *)
(* modelled).  A permission value is the set of the flag names whose bit   *)
(* is set: & is \cap, | is \cup, & ~m is \ m.                              *)
(*                                                                         *)
(* Two smaller plugins are modelled next to it, each in a variable of its  *)
(* own: role persistence across rejoin (src/plugins/persistence.py) and    *)
(* the output truncation of the sql command (src/plugins/db_manager.py).   *)
(***************************************************************************)
EXTENDS Integers, Sequences, FiniteSets, TLC

VARIABLES
    guild,       \* the live guild: [roles, channels, members]
    attachment,  \* the CSV file the invoker has prepared for importperms
    file,        \* the perms.csv exportperms sent last, <<>> before the first
    pc,          \* "idle", "prompt" (awaiting the reaction), "apply", "end"
    csv,         \* importperms: the rows of the attachment being imported
    actions,     \* importperms: the scheduled edits
    output,      \* importperms: the change notes
    error,       \* the exception the command ended with, NoError if none
    reaction,    \* what get_reaction returned, "none" before it returns
    done,        \* the number of scheduled edits awaited so far
    edits,       \* the edits awaited so far, in the order they ran
    sent,        \* the messages the command sent, in order
    before,      \* the guild when the command was invoked
    imports,     \* the number of importperms invocations so far
    other,       \* a second invocation of importperms on the same guild:
                 \* [pc, csv, actions, output, error, done, during, seen]
    persistence, \* role persistence: [conf, roles, members, member_roles, session]
    sql          \* the sql command: [pc, args, outputs, total_len, error, text, tx]

vars == <<guild, attachment, file, pc, csv, actions, output, error, reaction,
          done, edits, sent, before, imports, other, persistence, sql>>

(***************************************************************************)
(* Strings                                                                 *)
(***************************************************************************)
DigitChars == <<"0", "1", "2", "3", "4", "5", "6", "7", "8", "9">>

RECURSIVE IntToStr(_)
\* str(n) / "{}".format(n) of a non-negative integer
IntToStr(n) ==
    IF n < 10 THEN <<DigitChars[n + 1]>>
    ELSE IntToStr(n \div 10) \o <<DigitChars[(n % 10) + 1]>>

IsDigit(c) == \E i \in 1..10 : DigitChars[i] = c

DigitValue(c) == (CHOOSE i \in 1..10 : DigitChars[i] = c) - 1

RECURSIVE StrToInt(_)
\* int(s) of a string of decimal digits
StrToInt(s) ==
    IF Len(s) = 0 THEN 0
    ELSE 10 * StrToInt(SubSeq(s, 1, Len(s) - 1)) + DigitValue(s[Len(s)])

\* int(s) raises ValueError unless s is a non-empty run of digits
IsIntLiteral(s) == Len(s) > 0 /\ \A i \in 1..Len(s) : IsDigit(s[i])

StartsWith(s, p) == Len(s) >= Len(p) /\ SubSeq(s, 1, Len(p)) = p

RemovePrefix(s, p) == IF StartsWith(s, p) THEN SubSeq(s, Len(p) + 1, Len(s)) ELSE s

RECURSIVE LStrip(_)
LStrip(s) == IF Len(s) > 0 /\ s[1] = " " THEN LStrip(Tail(s)) ELSE s

RECURSIVE TakeWord(_)
TakeWord(s) == IF Len(s) = 0 \/ s[1] = " " THEN <<>> ELSE <<s[1]>> \o TakeWord(Tail(s))

\* s.split(maxsplit=1): the list of at most two pieces; only its length and
\* first element are used
SplitFirst(s) == IF LStrip(s) = <<>> THEN <<>> ELSE <<TakeWord(LStrip(s))>>

S_Role == <<"R", "o", "l", "e", " ">>
S_User == <<"U", "s", "e", "r", " ">>
S_Synced == <<"(", "s", "y", "n", "c", "e", "d", ")">>
S_Category == <<"C", "a", "t", "e", "g", "o", "r", "y">>
S_Channel == <<"C", "h", "a", "n", "n", "e", "l">>
S_RoleUser == <<"R", "o", "l", "e", "/", "U", "s", "e", "r">>
Plus == <<"+">>
Minus == <<"-">>
Slash == <<"/">>

(***************************************************************************)
(* The guild (discord.py objects read by the plugin)                       *)
(*   role     [id, name, permissions]            guild.roles is a list     *)
(*   channel  [id, name, kind, category_id, position, overwrites]          *)
(*            overwrites: list of [target, allow, deny], one per target    *)
(*   member   [id, name]                                                   *)
(*   target   [type |-> "role" | "member", id]                             *)
(***************************************************************************)
\* the permission flags, in the order iterating discord.Permissions yields
PermFlags == <<"create_instant_invite", "kick_members">>

FlagNames == {PermFlags[i] : i \in 1..Len(PermFlags)}

\* channel.category is None
NoCategory == 0

Range(s) == {s[i] : i \in 1..Len(s)}

IndexOf(s, x) == CHOOSE i \in 1..Len(s) : s[i] = x /\ \A j \in 1..(i - 1) : s[j] # x

ChannelById(g, id) == CHOOSE c \in Range(g.channels) : c.id = id

RoleById(g, id) == CHOOSE r \in Range(g.roles) : r.id = id

MemberById(g, id) == CHOOSE m \in Range(g.members) : m.id = id

HasCategory(g, c) ==
    c.category_id # NoCategory /\ \E k \in Range(g.channels) : k.id = c.category_id

IsCategory(c) == c.kind = "category"

\* dict equality of two overwrites mappings: same targets, same pairs
OverwritesEqual(a, b) == Range(a) = Range(b)

\* discord.abc.GuildChannel.permissions_synced: the channel has a category
\* and its overwrites equal the category's
permissions_synced(g, c) ==
    /\ HasCategory(g, c)
    /\ OverwritesEqual(ChannelById(g, c.category_id).overwrites, c.overwrites)

(***************************************************************************)
(* sorted(xs, key=...): a stable sort on tuples of integers                *)
(***************************************************************************)
RECURSIVE KeyLess(_, _)
\* tuple comparison a < b, element by element
KeyLess(a, b) ==
    IF Len(a) = 0 \/ Len(b) = 0 THEN Len(a) < Len(b)
    ELSE IF a[1] # b[1] THEN a[1] < b[1]
    ELSE KeyLess(Tail(a), Tail(b))

RECURSIVE InsertByKey(_, _)
\* x goes after every element whose key is not greater than its own
InsertByKey(sorted, x) ==
    IF Len(sorted) = 0 THEN <<x>>
    ELSE IF KeyLess(x.key, sorted[1].key) THEN <<x>> \o sorted
    ELSE <<sorted[1]>> \o InsertByKey(Tail(sorted), x)

RECURSIVE SortKeyed(_, _)
SortKeyed(acc, rest) ==
    IF Len(rest) = 0 THEN acc ELSE SortKeyed(InsertByKey(acc, rest[1]), Tail(rest))

\* sorted(xs, key=...): keys[i] is the key of xs[i], a tuple of integers
SortedBy(xs, keys) ==
    LET keyed == [i \in 1..Len(xs) |-> [key |-> keys[i], val |-> xs[i]]]
        res == SortKeyed(<<>>, keyed)
    IN  [i \in 1..Len(res) |-> res[i].val]

(***************************************************************************)
(* exportperms                                                             *)
(***************************************************************************)
BoolInt(b) == IF b THEN 1 ELSE 0

channel_sort_key(g, channel) ==
    IF IsCategory(channel) THEN <<channel.position, 0, -1>>
    ELSE <<IF HasCategory(g, channel)
             THEN ChannelById(g, channel.category_id).position ELSE -1,
           BoolInt(channel.kind = "voice"),
           channel.position>>

\* a key that puts members and roles missing from the list after every role
overwrite_sort_key_members_last(g, entry) ==
    IF entry.target.type = "role"
    THEN IF \E i \in 1..Len(g.roles) : g.roles[i].id = entry.target.id
         THEN <<(CHOOSE i \in 1..Len(g.roles) : g.roles[i].id = entry.target.id) - 1>>
         ELSE <<Len(g.roles)>>
    ELSE <<Len(g.roles)>>

\* guild.roles.index(role), 0-based; -1 for a member and for a role that is
\* not in the list
overwrite_sort_key(g, entry) ==
    IF entry.target.type = "role"
    THEN IF \E i \in 1..Len(g.roles) : g.roles[i].id = entry.target.id
         THEN <<(CHOOSE i \in 1..Len(g.roles) : g.roles[i].id = entry.target.id) - 1>>
         ELSE <<-1>>
    ELSE <<-1>>

\* the channels of the guild named like this one, sorted by id
SameName(g, channel) ==
    LET chans == SelectSeq(g.channels, LAMBDA chan : chan.name = channel.name)
    IN  SortedBy(chans, [i \in 1..Len(chans) |-> <<chans[i].id>>])

disambiguated_name(g, channel) ==
    LET chans == SameName(g, channel)
    IN  IF Len(chans) < 2 THEN channel.name
        ELSE channel.name \o <<" ", "(">>
               \o IntToStr(1 + (IndexOf([i \in 1..Len(chans) |-> chans[i].id], channel.id) - 1))
               \o <<")">>

\* a flag name as a header cell
PermFlagCells == [i \in 1..Len(PermFlags) |-> <<PermFlags[i]>>]

HeaderRow == <<S_Category, S_Channel, S_RoleUser>> \o PermFlagCells

RoleRow(role) ==
    <<<<>>, <<>>, S_Role \o role.name>>
      \o [i \in 1..Len(PermFlags) |->
            IF PermFlags[i] \in role.permissions THEN Plus ELSE Minus]

ChannelHeader(g, channel) ==
    IF IsCategory(channel) THEN <<disambiguated_name(g, channel), <<>>>>
    ELSE <<IF HasCategory(g, channel)
             THEN disambiguated_name(g, ChannelById(g, channel.category_id))
             ELSE <<>>,
           disambiguated_name(g, channel)>>

TargetName(g, target) ==
    IF target.type = "role" THEN S_Role \o RoleById(g, target.id).name
    ELSE S_User \o IntToStr(target.id) \o <<" ">> \o MemberById(g, target.id).name

OverwriteRow(g, channel, entry) ==
    ChannelHeader(g, channel) \o <<TargetName(g, entry.target)>>
      \o [i \in 1..Len(PermFlags) |->
            IF PermFlags[i] \in entry.allow THEN Plus
            ELSE IF PermFlags[i] \in entry.deny THEN Minus ELSE Slash]

RECURSIVE Concat(_)
Concat(ss) == IF Len(ss) = 0 THEN <<>> ELSE ss[1] \o Concat(Tail(ss))

ChannelRows(g, channel) ==
    LET ows == SortedBy(channel.overwrites,
                        [i \in 1..Len(channel.overwrites) |->
                            overwrite_sort_key(g, channel.overwrites[i])])
    IN  <<ChannelHeader(g, channel)
            \o <<IF permissions_synced(g, channel) THEN S_Synced ELSE <<>>>>>>
        \o (IF permissions_synced(g, channel) THEN <<>>
            ELSE [i \in 1..Len(ows) |-> OverwriteRow(g, channel, ows[i])])

\* the rows exportperms writes for guild g
exportperms(g) ==
    LET chans == SortedBy(g.channels,
                          [i \in 1..Len(g.channels) |-> channel_sort_key(g, g.channels[i])])
    IN  <<HeaderRow>>
        \o [i \in 1..Len(g.roles) |-> RoleRow(g.roles[i])]
        \o Concat([i \in 1..Len(chans) |-> ChannelRows(g, chans[i])])

(***************************************************************************)
(* importperms: lookups                                                    *)
(***************************************************************************)
\* overwrites_for(channel, target).pair(): the entry whose target has the
\* id, else an empty overwrite
overwrites_for(channel, target) ==
    IF \E i \in 1..Len(channel.overwrites) : channel.overwrites[i].target.id = target.id
    THEN LET i == CHOOSE j \in 1..Len(channel.overwrites) :
                    /\ channel.overwrites[j].target.id = target.id
                    /\ \A k \in 1..(j - 1) : channel.overwrites[k].target.id # target.id
         IN  [allow |-> channel.overwrites[i].allow, deny |-> channel.overwrites[i].deny]
    ELSE [allow |-> {}, deny |-> {}]

\* line 95: {disambiguated_name(channel): channel for channel in guild.channels},
\* as the list of its items before duplicates are dropped
ChannelsDict(g) ==
    [i \in 1..Len(g.channels) |->
        [label |-> disambiguated_name(g, g.channels[i]), channel |-> g.channels[i]]]

\* the items of the dict with this key: a later one replaces an earlier one
LabelIndexes(channels, label) == {i \in 1..Len(channels) : channels[i].label = label}

InChannels(channels, label) == LabelIndexes(channels, label) # {}

ChannelsGet(channels, label) ==
    LET idx == LabelIndexes(channels, label)
    IN  channels[CHOOSE i \in idx : \A j \in idx : j <= i].channel

\* line 96: {role.name: role for role in guild.roles}
NameIndexes(g, name) == {i \in 1..Len(g.roles) : g.roles[i].name = name}

InRoles(g, name) == NameIndexes(g, name) # {}

RolesGet(g, name) ==
    LET idx == NameIndexes(g, name)
    IN  g.roles[CHOOSE i \in idx : \A j \in idx : j <= i]

\* guild.get_member(user_id) is not None
IsMember(g, id) == \E m \in Range(g.members) : m.id = id

\* attributes of discord.Permissions that getattr finds and that are not flags
NonFlagAttrs == {"value", "is_subset"}

NoError == [type |-> "none", line |-> 0, what |-> "", arg |-> <<>>]

UserError(line, what, arg) == [type |-> "UserError", line |-> line, what |-> what, arg |-> arg]

\* getattr(discord.Permissions, perm) of one header cell
FlagOf(cell) ==
    IF Len(cell) = 1 /\ cell[1] \in FlagNames THEN [kind |-> "flag", name |-> cell[1]]
    ELSE IF Len(cell) = 1 /\ cell[1] \in NonFlagAttrs THEN [kind |-> "attr", name |-> cell[1]]
    ELSE [kind |-> "unknown", name |-> ""]

ValidHeader(header) ==
    ~(Len(header) < 3 \/ header[1] # S_Category \/ header[2] # S_Channel
        \/ header[3] # S_RoleUser)

\* flags: one entry per header column after the third
HeaderFlags(header) == [i \in 1..(Len(header) - 3) |-> FlagOf(header[i + 3])]

HeaderError(header) ==
    IF ~ValidHeader(header) THEN UserError(0, "Invalid header.", <<>>)
    ELSE LET flags == HeaderFlags(header)
             bad == {i \in 1..Len(flags) : flags[i].kind = "unknown"}
         IN  IF bad = {} THEN NoError
             ELSE UserError(0, "Unknown permission", header[3 + (CHOOSE i \in bad : \A j \in bad : i <= j)])

Min(a, b) == IF a < b THEN a ELSE b

\* zip(flags, row[3:]): the number of pairs
ZipLen(flags, row) == Min(Len(flags), Len(row) - 3)

\* flag.flag raises AttributeError for an attribute that is not a flag; it is
\* evaluated when the sign is one of those the loop tests
FlagAttrError(flags, row, signs) ==
    \E i \in 1..ZipLen(flags, row) : flags[i].kind = "attr" /\ row[i + 3] \in signs

(***************************************************************************)
(* importperms: the locals of one invocation                               *)
(*   actions            the scheduled edits, in scheduling order           *)
(*   output             the change notes                                   *)
(*   new_overwrites     insertion-ordered: channel -> target -> masks      *)
(*   overwrites_changed, want_sync   sets of channel ids                   *)
(*   seen_moved         set of <<channel id, category id>>                 *)
(*   channel            the local "channel": NoCategory while unbound      *)
(***************************************************************************)
NoTarget == [type |-> "none", id |-> 0]

Note(kind, id, target, category, changes) ==
    [kind |-> kind, id |-> id, target |-> target, category |-> category, changes |-> changes]

RoleEdit(id, add_mask, remove_mask) ==
    [kind |-> "role", id |-> id, add |-> add_mask, remove |-> remove_mask,
     category |-> NoCategory, entries |-> <<>>]

MoveEdit(id, category) ==
    [kind |-> "move", id |-> id, add |-> {}, remove |-> {},
     category |-> category, entries |-> <<>>]

OverwritesEdit(id, entries) ==
    [kind |-> "overwrites", id |-> id, add |-> {}, remove |-> {},
     category |-> NoCategory, entries |-> entries]

SyncEdit(id) ==
    [kind |-> "sync", id |-> id, add |-> {}, remove |-> {},
     category |-> NoCategory, entries |-> <<>>]

Locals0 ==
    [err |-> NoError, actions |-> <<>>, output |-> <<>>, new_overwrites |-> <<>>,
     overwrites_changed |-> {}, want_sync |-> {}, seen_moved |-> {}, channel |-> NoCategory]

Raise(st, e) == [st EXCEPT !.err = e]

HasKey(no, chan) == \E i \in 1..Len(no) : no[i].chan = chan

KeyIndex(no, chan) == CHOOSE i \in 1..Len(no) : no[i].chan = chan

\* new_overwrites[channel]: the defaultdict creates the empty dict on access
Touch(no, chan) == IF HasKey(no, chan) THEN no ELSE Append(no, [chan |-> chan, entries |-> <<>>])

EntriesOf(no, chan) == IF HasKey(no, chan) THEN no[KeyIndex(no, chan)].entries ELSE <<>>

\* new_overwrites[channel][target] = masks
SetEntry(no, chan, e) ==
    LET t == Touch(no, chan)
        k == KeyIndex(t, chan)
        es == t[k].entries
    IN  IF \E i \in 1..Len(es) : es[i].target = e.target
        THEN [t EXCEPT ![k].entries =
                 [i \in 1..Len(es) |-> IF es[i].target = e.target THEN e ELSE es[i]]]
        ELSE [t EXCEPT ![k].entries = Append(es, e)]

\* the changes list of a role row, in column order
RoleChanges(role, flags, row) ==
    Concat([i \in 1..ZipLen(flags, row) |->
        (IF row[i + 3] = Plus /\ flags[i].name \notin role.permissions
           THEN <<<<"allow", flags[i].name>>>> ELSE <<>>)
        \o (IF row[i + 3] = Minus /\ flags[i].name \in role.permissions
           THEN <<<<"deny", flags[i].name>>>> ELSE <<>>)])

\* the changes list of an overwrite row, in column order
OverwriteChanges(ow, flags, row) ==
    Concat([i \in 1..ZipLen(flags, row) |->
        (IF row[i + 3] = Plus /\ flags[i].name \notin ow.allow
           THEN <<<<"allow", flags[i].name>>>> ELSE <<>>)
        \o (IF row[i + 3] = Minus /\ flags[i].name \notin ow.deny
           THEN <<<<"deny", flags[i].name>>>> ELSE <<>>)
        \o (IF row[i + 3] = Slash /\ (flags[i].name \in ow.allow \/ flags[i].name \in ow.deny)
           THEN <<<<"reset", flags[i].name>>>> ELSE <<>>)])

\* the mask the loop accumulates for one mark
MaskOf(changes, mark) == {changes[i][2] : i \in {j \in 1..Len(changes) : changes[j][1] = mark}}

\* a row with empty Category and Channel cells
RoleRowStep(g, flags, st, row, line) ==
    IF ~StartsWith(row[3], S_Role)
    THEN Raise(st, UserError(line, "expected a role.", <<>>))
    ELSE LET role_name == RemovePrefix(row[3], S_Role) IN
      IF ~InRoles(g, role_name)
      THEN Raise(st, UserError(line, "unknown role", role_name))
      ELSE IF FlagAttrError(flags, row, {Plus, Minus})
      THEN Raise(st, [type |-> "AttributeError", line |-> line, what |-> "flag", arg |-> <<>>])
      ELSE LET role == RolesGet(g, role_name)
               changes == RoleChanges(role, flags, row)
               add_mask == MaskOf(changes, "allow")
               remove_mask == MaskOf(changes, "deny")
           IN  [st EXCEPT
                 !.output = IF changes # <<>>
                            THEN Append(@, Note("role", role.id, NoTarget, NoCategory, changes))
                            ELSE @,
                 !.actions = IF add_mask # {} \/ remove_mask # {}
                             THEN Append(@, RoleEdit(role.id, add_mask, remove_mask))
                             ELSE @]

\* channel.category: the category object, None when there is none
CategoryOf(g, channel) == IF HasCategory(g, channel) THEN channel.category_id ELSE NoCategory

\* the Category and Channel cells of a row: [err, category, channel]
Resolve(channels, row, line) ==
    LET Bad(what, arg) == [err |-> UserError(line, what, arg), category |-> NoCategory,
                           channel |-> NoCategory]
        First == ChannelsGet(channels, row[1])
        Second == ChannelsGet(channels, row[2])
    IN
    IF row[2] = <<>>
    THEN IF ~InChannels(channels, row[1]) THEN Bad("unknown channel", row[1])
         ELSE IF ~IsCategory(First) THEN Bad("is not a category", row[1])
         ELSE [err |-> NoError, category |-> NoCategory, channel |-> First.id]
    ELSE IF row[1] # <<>> /\ ~InChannels(channels, row[1]) THEN Bad("unknown channel", row[1])
         ELSE IF row[1] # <<>> /\ ~IsCategory(First) THEN Bad("is not a category", row[1])
         ELSE IF ~InChannels(channels, row[2]) THEN Bad("unknown channel", row[2])
         ELSE IF IsCategory(Second) THEN Bad("is a category", row[2])
         ELSE [err |-> NoError,
               category |-> IF row[1] = <<>> THEN NoCategory ELSE First.id,
               channel |-> Second.id]

\* the Role/User cell of an overwrite row: [err, target]
ResolveTarget(g, cell, line) ==
    LET Bad(e) == [err |-> e, target |-> NoTarget] IN
    IF StartsWith(cell, S_Role)
    THEN LET role_name == RemovePrefix(cell, S_Role) IN
         IF ~InRoles(g, role_name) THEN Bad(UserError(line, "unknown role", role_name))
         ELSE [err |-> NoError, target |-> [type |-> "role", id |-> RolesGet(g, role_name).id]]
    ELSE IF StartsWith(cell, S_User)
    THEN LET words == SplitFirst(RemovePrefix(cell, S_User)) IN
         IF Len(words) = 0
         THEN Bad([type |-> "IndexError", line |-> line, what |-> "split", arg |-> <<>>])
         ELSE IF ~IsIntLiteral(words[1]) THEN Bad(UserError(line, "expected user ID", <<>>))
         ELSE IF ~IsMember(g, StrToInt(words[1]))
              THEN Bad(UserError(line, "no such member", words[1]))
         ELSE [err |-> NoError, target |-> [type |-> "member", id |-> StrToInt(words[1])]]
    ELSE Bad(UserError(line, "expected a role or user.", <<>>))

\* lines 170-176: the move of a channel whose category differs from the row's
MoveStep(g, st, channel, category, line) ==
    IF ~IsCategory(channel) /\ CategoryOf(g, channel) # category
       /\ ~(\E m \in st.seen_moved : m[1] = channel.id)
    THEN IF category = NoCategory
         \* util.discord.format("Move {!c} to {!c}", channel, None): the
         \* conversion "c" of None falls through to string.Formatter, which
         \* raises ValueError
         THEN Raise(st, [type |-> "ValueError", line |-> line, what |-> "conversion", arg |-> <<>>])
         ELSE [st EXCEPT
            !.seen_moved = @ \cup {<<channel.id, category>>},
            !.output = Append(@, Note("move", channel.id, NoTarget, category, <<>>)),
            !.actions = Append(@, MoveEdit(channel.id, category))]
    ELSE st

\* lines 178-218: the Role/User cell of a channel row
TargetStep(g, flags, st, channel, row, line) ==
    IF row[3] = S_Synced /\ ~IsCategory(channel)
    THEN [st EXCEPT !.want_sync = @ \cup {channel.id}]
    ELSE IF row[3] # <<>>
    THEN LET t == ResolveTarget(g, row[3], line) IN
         IF t.err # NoError THEN Raise(st, t.err)
         ELSE IF FlagAttrError(flags, row, {Plus, Minus, Slash})
         THEN Raise(st, [type |-> "AttributeError", line |-> line, what |-> "flag", arg |-> <<>>])
         ELSE LET ow == overwrites_for(channel, t.target)
                  changes == OverwriteChanges(ow, flags, row)
              IN  [st EXCEPT
                    !.output = IF changes # <<>>
                               THEN Append(@, Note("overwrite", channel.id, t.target,
                                                    NoCategory, changes))
                               ELSE @,
                    !.new_overwrites = SetEntry(@, channel.id,
                        [target |-> t.target, add |-> MaskOf(changes, "allow"),
                         remove |-> MaskOf(changes, "deny"), reset |-> MaskOf(changes, "reset")])]
    ELSE [st EXCEPT !.new_overwrites = Touch(@, channel.id)]

\* a row with a Category or a Channel cell
ChannelRowStep(g, channels, flags, st, row, line) ==
    LET r == Resolve(channels, row, line) IN
    IF r.err # NoError THEN Raise(st, r.err)
    ELSE LET channel == ChannelById(g, r.channel)
             bound == [st EXCEPT !.channel = channel.id]
             moved == MoveStep(g, bound, channel, r.category, line)
         IN  IF moved.err # NoError THEN moved
             ELSE TargetStep(g, flags, moved, channel, row, line)

\* the body of "for row in reader"
RowStep(g, channels, flags, st, row, line) ==
    IF Len(row) < 3 THEN Raise(st, UserError(line, "invalid row.", <<>>))
    ELSE IF row[1] = <<>> /\ row[2] = <<>> THEN RoleRowStep(g, flags, st, row, line)
    ELSE ChannelRowStep(g, channels, flags, st, row, line)

RECURSIVE RowLoop(_, _, _, _, _, _)
\* lines 117-218: rows[i] is line i of the file (the header is line 1)
RowLoop(g, channels, flags, st, rows, i) ==
    IF i > Len(rows) \/ st.err # NoError THEN st
    ELSE RowLoop(g, channels, flags, RowStep(g, channels, flags, st, rows[i], i), rows, i + 1)

(***************************************************************************)
(* importperms: the passes after the rows                                  *)
(***************************************************************************)
\* line 220: "if channel in want_sync: continue" reads the local "channel",
\* which holds the channel of the last row read or of the last iteration
\* that was not skipped, not the loop variable chan
SkipSynced(st, chan) == st.channel \in st.want_sync

\* lines 224-227: some row of the channel has a nonzero mask
AnyMask(entries) ==
    \E i \in 1..Len(entries) :
        entries[i].add # {} \/ entries[i].remove # {} \/ entries[i].reset # {}

\* lines 228-233: the live targets with no row in the input, in live order
StaleTargets(channel, entries) ==
    LET live == [i \in 1..Len(channel.overwrites) |-> channel.overwrites[i].target]
    IN  SelectSeq(live, LAMBDA t : ~(\E i \in 1..Len(entries) : entries[i].target = t))

\* lines 234-238: the overwrite edit is appended for every channel that was
\* not skipped
ScheduleOverwrites(acts, chan, entries) == Append(acts, OverwritesEdit(chan, entries))

\* lines 223-238 for one key of new_overwrites
OverwritePassStep(g, st, chan) ==
    LET channel == ChannelById(g, chan)
        entries == EntriesOf(st.new_overwrites, chan)
        stale == StaleTargets(channel, entries)
    IN  [st EXCEPT
          !.channel = chan,
          !.overwrites_changed = IF AnyMask(entries) \/ Len(stale) > 0 THEN @ \cup {chan} ELSE @,
          !.output = @ \o [i \in 1..Len(stale) |->
                              Note("remove", chan, stale[i], NoCategory, <<>>)],
          !.actions = ScheduleOverwrites(@, chan, entries)]

RECURSIVE OverwritePass(_, _, _)
\* lines 219-238: for chan in new_overwrites
OverwritePass(g, st, i) ==
    IF i > Len(st.new_overwrites) THEN st
    ELSE IF SkipSynced(st, st.new_overwrites[i].chan) THEN OverwritePass(g, st, i + 1)
    ELSE OverwritePass(g, OverwritePassStep(g, st, st.new_overwrites[i].chan), i + 1)

\* seen_moved.get(channel, channel.category)
NewCategory(g, st, channel) ==
    IF \E m \in st.seen_moved : m[1] = channel.id
    THEN (CHOOSE m \in st.seen_moved : m[1] = channel.id)[2]
    ELSE CategoryOf(g, channel)

\* line 246: the test that schedules a sync
NeedSync(g, st, channel) ==
    \/ ~permissions_synced(g, channel)
    \/ \E m \in st.seen_moved : m[1] = channel.id
    \/ NewCategory(g, st, channel) \in st.overwrites_changed

\* a sync pass that puts the sync edit in front of the edits scheduled so far
SyncPassStepFirst(g, st, chan) ==
    LET channel == ChannelById(g, chan)
        new_category == NewCategory(g, st, channel)
    IN  IF new_category = NoCategory
        THEN Raise(st, UserError(0, "Cannot sync channel with no category", <<>>))
        ELSE IF NeedSync(g, st, channel)
        THEN [st EXCEPT
                !.channel = chan,
                !.output = Append(@, Note("sync", chan, NoTarget, new_category, <<>>)),
                !.actions = <<SyncEdit(chan)>> \o @]
        ELSE [st EXCEPT !.channel = chan]

\* lines 242-250 for one element of want_sync
SyncPassStep(g, st, chan) ==
    LET channel == ChannelById(g, chan)
        new_category == NewCategory(g, st, channel)
    IN  IF new_category = NoCategory
        THEN Raise(st, UserError(0, "Cannot sync channel with no category", <<>>))
        ELSE IF NeedSync(g, st, channel)
        THEN [st EXCEPT
                !.channel = chan,
                !.output = Append(@, Note("sync", chan, NoTarget, new_category, <<>>)),
                !.actions = Append(@, SyncEdit(chan))]
        ELSE [st EXCEPT !.channel = chan]

RECURSIVE SyncPass(_, _, _, _)
\* lines 239-250: for chan in want_sync, order being the set's iteration order
SyncPass(g, st, order, i) ==
    IF i > Len(order) \/ st.err # NoError THEN st
    ELSE SyncPass(g, SyncPassStep(g, st, order[i]), order, i + 1)

\* the orders in which a set can be iterated
Orders(S) == {o \in [1..Cardinality(S) -> S] : \A x \in S : \E i \in DOMAIN o : o[i] = x}

\* lines 98-238: the locals when the loop over new_overwrites ends, or when
\* an exception ends the parsing of file f against guild g before
ParseRows(g, f) ==
    IF Len(f) = 0
    THEN Raise(Locals0, [type |-> "StopIteration", line |-> 0, what |-> "next", arg |-> <<>>])
    ELSE IF HeaderError(f[1]) # NoError THEN Raise(Locals0, HeaderError(f[1]))
    ELSE LET first == RowLoop(g, ChannelsDict(g), HeaderFlags(f[1]), Locals0, f, 2)
         IN  IF first.err # NoError THEN first ELSE OverwritePass(g, first, 1)

\* lines 98-250: the locals when importperms reaches line 252 or raises;
\* order is the iteration order of want_sync
SyncRows(g, st, order) == IF st.err # NoError THEN st ELSE SyncPass(g, st, order, 1)

Parse(g, f, order) == SyncRows(g, ParseRows(g, f), order)

(***************************************************************************)
(* The scheduled edits, as they run against the guild when awaited         *)
(***************************************************************************)
\* discord.Permissions(permissions.value & ~remove_mask | add_mask)
tweak_permissions(permissions, add_mask, remove_mask) ==
    (permissions \ remove_mask) \cup add_mask

\* discord.PermissionOverwrite.from_pair(allow, deny) followed by pair(): the
\* allowed flags are set to True first, the denied flags to False after
\* them, so a flag in both ends denied
from_pair(allow, deny) == [allow |-> allow \ deny, deny |-> deny]

tweak_overwrite(overwrite, add_mask, remove_mask, reset_mask) ==
    from_pair(tweak_permissions(overwrite.allow, add_mask, reset_mask),
              tweak_permissions(overwrite.deny, remove_mask, reset_mask))

SetChannel(g, id, new) ==
    [g EXCEPT !.channels = [i \in 1..Len(@) |-> IF @[i].id = id THEN new ELSE @[i]]]

\* a role edit that only adds flags
ApplyRoleEditAddOnly(g, a) ==
    [g EXCEPT !.roles = [i \in 1..Len(@) |->
        IF @[i].id = a.id
        THEN [@[i] EXCEPT !.permissions = @ \cup a.add]
        ELSE @[i]]]

\* role.edit(permissions=Permissions(role.permissions.value & ~remove_mask | add_mask))
ApplyRoleEdit(g, a) ==
    [g EXCEPT !.roles = [i \in 1..Len(@) |->
        IF @[i].id = a.id
        THEN [@[i] EXCEPT !.permissions = (@ \ a.remove) \cup a.add]
        ELSE @[i]]]

\* channel.edit(category=category)
ApplyMoveEdit(g, a) ==
    SetChannel(g, a.id, [ChannelById(g, a.id) EXCEPT !.category_id = a.category])

\* channel.edit(overwrites={target: tweak_overwrite(overwrites_for(channel, target), ...)})
ApplyOverwritesEdit(g, a) ==
    LET channel == ChannelById(g, a.id)
        New(e) == tweak_overwrite(overwrites_for(channel, e.target), e.add, e.remove, e.reset)
    IN  SetChannel(g, a.id, [channel EXCEPT !.overwrites =
            [i \in 1..Len(a.entries) |->
                [target |-> a.entries[i].target,
                 allow |-> New(a.entries[i]).allow,
                 deny |-> New(a.entries[i]).deny]]])

\* channel.edit(sync_permissions=True): the overwrites of the category the
\* channel is in are copied; nothing is sent for a channel with no category
ApplySyncEdit(g, a) ==
    LET channel == ChannelById(g, a.id) IN
    IF HasCategory(g, channel)
    THEN SetChannel(g, a.id,
            [channel EXCEPT !.overwrites = ChannelById(g, channel.category_id).overwrites])
    ELSE g

\* await action()
ApplyEdit(g, a) ==
    IF a.kind = "role" THEN ApplyRoleEdit(g, a)
    ELSE IF a.kind = "move" THEN ApplyMoveEdit(g, a)
    ELSE IF a.kind = "overwrites" THEN ApplyOverwritesEdit(g, a)
    ELSE ApplySyncEdit(g, a)

(***************************************************************************)
(* The preview (lines 256-263).  A text is [len, notes]: its length in     *)
(* characters and the notes it holds, in order.                            *)
(***************************************************************************)
MessageLimit == 2000

\* "<#id>", "<@id>": 3 characters around the id; "<@&id>": 4
MentionLen(target) == Len(IntToStr(target.id)) + (IF target.type = "role" THEN 4 ELSE 3)

ChannelLinkLen(id) == Len(IntToStr(id)) + 3

RECURSIVE JoinedLen(_)
\* len(", ".join(changes)), a change being one mark character and the name
JoinedLen(changes) ==
    IF Len(changes) = 0 THEN 0
    ELSE 1 + Len(changes[1][2]) + (IF Len(changes) > 1 THEN 2 ELSE 0) + JoinedLen(Tail(changes))

\* the length of the text util.discord.format gives for a note
NoteLen(n) ==
    IF n.kind = "role" THEN Len(IntToStr(n.id)) + 4 + 2 + JoinedLen(n.changes)
    ELSE IF n.kind = "overwrite"
         THEN ChannelLinkLen(n.id) + 1 + MentionLen(n.target) + 2 + JoinedLen(n.changes)
    ELSE IF n.kind = "move" THEN 5 + ChannelLinkLen(n.id) + 4 + ChannelLinkLen(n.category)
    ELSE IF n.kind = "remove" THEN ChannelLinkLen(n.id) + 8 + MentionLen(n.target)
    ELSE 5 + ChannelLinkLen(n.id) + 6 + ChannelLinkLen(n.category)

Message(kind, len, notes) == [kind |-> kind, len |-> len, notes |-> notes]

RECURSIVE PreviewLoop(_, _, _, _)
\* lines 256-263: the messages sent, the last one being the text left when
\* the loop ends
PreviewLoop(out, i, text, msgs) ==
    IF i > Len(out) THEN Append(msgs, Message("text", text.len, text.notes))
    ELSE IF text.len + 1 + NoteLen(out[i]) > MessageLimit
    THEN PreviewLoop(out, i + 1, [len |-> NoteLen(out[i]), notes |-> <<out[i]>>],
                     Append(msgs, Message("text", text.len, text.notes)))
    ELSE PreviewLoop(out, i + 1,
                     [len |-> text.len + 1 + NoteLen(out[i]), notes |-> Append(text.notes, out[i])],
                     msgs)

Preview(out) == PreviewLoop(out, 1, [len |-> 0, notes |-> <<>>], <<>>)

(***************************************************************************)
(* The commands as steps.  importperms runs without suspending from the    *)
(* read of the attachment to the first send, so ImportPerms is one step;   *)
(* it then suspends in get_reaction and at every awaited edit.  An edit    *)
(* is taken to show in the guild when its await returns.                   *)
(***************************************************************************)
MaxImports == 2

\* plugins.reactions.get_reaction(msg, ctx.author, {no: False, yes: True},
\* timeout=300): the invoker's choice, or a timeout
ReactionResults == {"confirm", "decline", "timeout"}

\* a test that takes every answer of the invoker for a confirmation
ConfirmedByAnyAnswer(r) == r # "timeout"

\* line 265: the truth value of what get_reaction returned
Confirmed(r) == r = "confirm"

\* a loop that runs the scheduled edits last to first
NextActionReversed(acts, n) == acts[Len(acts) - n]

\* lines 266-267: "for action in actions: await action()"
NextAction(acts, n) == acts[n + 1]

\* lines 37-65
ExportPerms ==
    /\ pc \in {"idle", "end"}
    /\ file # exportperms(guild)
    /\ file' = exportperms(guild)
    /\ pc' = "end"
    /\ sent' = <<Message("file", 0, <<>>)>>
    /\ error' = NoError
    /\ before' = guild
    /\ UNCHANGED <<persistence, sql, other, guild, attachment, csv, actions, output, reaction, done, edits, imports>>

\* ctx.send(text): Discord refuses an empty message and one of more than
\* 2000 characters, and send raises HTTPException
Rejected(msg) == msg.len = 0 \/ msg.len > MessageLimit

\* the texts handed to ctx.send, up to and including the first refused one
SendAll(msgs) ==
    LET bad == {i \in 1..Len(msgs) : Rejected(msgs[i])}
    IN  IF bad = {} THEN msgs
        ELSE SubSeq(msgs, 1, CHOOSE i \in bad : \A j \in bad : i <= j)

SendError(msgs) ==
    IF \E i \in 1..Len(msgs) : Rejected(msgs[i])
    THEN [type |-> "HTTPException", line |-> 0, what |-> "send", arg |-> <<>>]
    ELSE NoError

\* the preview of the notes of a parse that did not raise
PreviewOf(st) == IF st.err # NoError \/ st.output = <<>> THEN <<>> ELSE Preview(st.output)

\* lines 252-263 when the parse has ended with the locals st and msgs is the
\* preview of its notes: the exception, "No changes." or the preview messages
ImportOf(f, st, msgs) ==
    /\ csv' = f
    /\ actions' = st.actions
    /\ output' = st.output
    /\ error' = IF st.err # NoError THEN st.err ELSE SendError(msgs)
    /\ pc' = IF st.err # NoError \/ st.output = <<>> \/ SendError(msgs) # NoError
             THEN "end" ELSE "prompt"
    /\ sent' = IF st.err # NoError THEN <<>>
               ELSE IF st.output = <<>> THEN <<Message("nochanges", 0, <<>>)>>
               ELSE SendAll(msgs)

\* lines 86-263 on the file f: parse, then "No changes." or the preview
Import(f) ==
    /\ imports < MaxImports
    /\ \E order \in Orders(ParseRows(guild, f).want_sync) :
         ImportOf(f, Parse(guild, f, order), PreviewOf(Parse(guild, f, order)))
    /\ imports' = imports + 1
    /\ before' = guild
    /\ reaction' = "none"
    /\ done' = 0
    /\ edits' = <<>>
    /\ UNCHANGED <<persistence, sql, other, guild, attachment, file>>

\* importperms is invoked with the prepared attachment
ImportAttachment == pc = "idle" /\ attachment # <<>> /\ Import(attachment)

\* importperms is invoked again with the same attachment after an earlier
\* invocation was confirmed and has sent its success mark
ImportAgain ==
    /\ pc = "end"
    /\ csv = attachment
    /\ sent # <<>> /\ sent[Len(sent)].kind = "success"
    /\ Import(attachment)

\* importperms is invoked with the file exportperms sent, unmodified
ImportExported == pc \in {"idle", "end"} /\ file # <<>> /\ Import(file)

\* line 265: get_reaction returns
React ==
    /\ pc = "prompt"
    /\ \E r \in ReactionResults :
        /\ reaction' = r
        /\ pc' = IF Confirmed(r) THEN "apply" ELSE "end"
    /\ UNCHANGED <<persistence, sql, other, guild, attachment, file, csv, actions, output, error, done, edits,
                   sent, before, imports>>

\* line 267: the next scheduled edit is awaited and succeeds
ApplyAction ==
    /\ pc = "apply"
    /\ done < Len(actions)
    /\ guild' = ApplyEdit(guild, NextAction(actions, done))
    /\ edits' = Append(edits, NextAction(actions, done))
    /\ done' = done + 1
    /\ UNCHANGED <<persistence, sql, other, attachment, file, pc, csv, actions, output, error, reaction, sent,
                   before, imports>>

\* a failure handler that restores the guild the command was invoked on
ApplyRaiseRollback ==
    /\ pc = "apply"
    /\ done < Len(actions)
    /\ error' = [type |-> "HTTPException", line |-> 0, what |-> "edit", arg |-> <<>>]
    /\ pc' = "end"
    /\ guild' = before
    /\ UNCHANGED <<persistence, sql, other, attachment, file, csv, actions, output, reaction, done, edits,
                   sent, before, imports>>

\* line 267: the next scheduled edit raises (Forbidden, NotFound, HTTPException);
\* the exception leaves importperms
ApplyRaise ==
    /\ pc = "apply"
    /\ done < Len(actions)
    /\ error' = [type |-> "HTTPException", line |-> 0, what |-> "edit", arg |-> <<>>]
    /\ pc' = "end"
    /\ UNCHANGED <<persistence, sql, other, guild, attachment, file, csv, actions, output, reaction, done, edits,
                   sent, before, imports>>

\* line 268: the success mark
SendSuccess ==
    /\ pc = "apply"
    /\ done = Len(actions)
    /\ sent' = Append(sent, Message("success", 1, <<>>))
    /\ pc' = "end"
    /\ UNCHANGED <<persistence, sql, other, guild, attachment, file, csv, actions, output, error, reaction, done,
                   edits, before, imports>>

(***************************************************************************)
(* A second invocation of importperms on the same guild.  Nothing          *)
(* coordinates the two: each parses against the guild as it is when it is  *)
(* invoked and awaits its edits one by one, and the steps of the two       *)
(* interleave at every await.                                              *)
(***************************************************************************)
\* the second invocation when its parse has ended with the locals st
OtherParsed(st, f, msgs, during) ==
    [pc |-> IF st.err # NoError \/ st.output = <<>> \/ SendError(msgs) # NoError
            THEN "end" ELSE "prompt",
     csv |-> f,
     actions |-> st.actions,
     output |-> st.output,
     error |-> IF st.err # NoError THEN st.err ELSE SendError(msgs),
     done |-> 0,
     during |-> during,
     seen |-> 0]

\* lines 86-263 of the second invocation; during records whether the first
\* one was between its parse and its end
OtherImportOf(f) ==
    /\ \E order \in Orders(ParseRows(guild, f).want_sync) :
         other' = OtherParsed(Parse(guild, f, order), f, PreviewOf(Parse(guild, f, order)),
                              pc \in {"prompt", "apply"})
    /\ UNCHANGED <<persistence, sql, guild, attachment, file, pc, csv, actions, output, error, reaction,
                   done, edits, sent, before, imports>>

\* the second invocation is made, with its own attachment
OtherImport == other.pc = "idle" /\ OtherImportOf(other.csv)

\* line 265 of the second invocation
OtherReact ==
    /\ other.pc = "prompt"
    /\ \E r \in ReactionResults :
        other' = [other EXCEPT !.pc = IF Confirmed(r) THEN "apply" ELSE "end"]
    /\ UNCHANGED <<persistence, sql, guild, attachment, file, pc, csv, actions, output, error, reaction,
                   done, edits, sent, before, imports>>

\* line 267 of the second invocation: its next edit runs; seen is the number
\* of edits of the first invocation that ran before it
OtherApplyAction ==
    /\ other.pc = "apply"
    /\ other.done < Len(other.actions)
    /\ guild' = ApplyEdit(guild, NextAction(other.actions, other.done))
    /\ other' = [other EXCEPT !.done = @ + 1, !.seen = Len(edits)]
    /\ UNCHANGED <<persistence, sql, attachment, file, pc, csv, actions, output, error, reaction,
                   done, edits, sent, before, imports>>

\* line 267 of the second invocation: its next edit raises
OtherApplyRaise ==
    /\ other.pc = "apply"
    /\ other.done < Len(other.actions)
    /\ other' = [other EXCEPT
            !.pc = "end",
            !.error = [type |-> "HTTPException", line |-> 0, what |-> "edit", arg |-> <<>>]]
    /\ UNCHANGED <<persistence, sql, guild, attachment, file, pc, csv, actions, output, error, reaction,
                   done, edits, sent, before, imports>>

\* line 268 of the second invocation
OtherSendSuccess ==
    /\ other.pc = "apply"
    /\ other.done = Len(other.actions)
    /\ other' = [other EXCEPT !.pc = "success"]
    /\ UNCHANGED <<persistence, sql, guild, attachment, file, pc, csv, actions, output, error, reaction,
                   done, edits, sent, before, imports>>

(***************************************************************************)
(* The guilds and the files the behaviours start from                      *)
(***************************************************************************)
MaxRows == 2

F1 == PermFlags[1]

Role(id, name, permissions) == [id |-> id, name |-> name, permissions |-> permissions]

Channel(id, name, kind, category_id, position, overwrites) ==
    [id |-> id, name |-> name, kind |-> kind, category_id |-> category_id,
     position |-> position, overwrites |-> overwrites]

RoleTarget(id) == [type |-> "role", id |-> id]

MemberTarget(id) == [type |-> "member", id |-> id]

Overwrite(target, allow, deny) == [target |-> target, allow |-> allow, deny |-> deny]

\* one overwrite of role 2 on the first flag, or none
OverwriteChoices ==
    {<<>>, <<Overwrite(RoleTarget(2), {F1}, {})>>, <<Overwrite(RoleTarget(2), {}, {F1})>>}

\* a category "c" and a text channel "x", in the category or in none
SmallGuilds ==
    {[roles |-> <<Role(1, <<"e">>, {}), Role(2, <<"m">>, p)>>,
      members |-> <<[id |-> 7, name |-> <<"u">>]>>,
      channels |-> <<Channel(3, <<"c">>, "category", NoCategory, 0, owc),
                     Channel(4, <<"x">>, "text", cat, 0, owx)>>] :
        p \in {{}, {F1}}, cat \in {NoCategory, 3}, owc \in {<<>>, <<Overwrite(RoleTarget(2), {}, {F1})>>},
        owx \in OverwriteChoices}

\* a header with the first flag as its only permission column
ShortHeader == <<S_Category, S_Channel, S_RoleUser, <<F1>>>>

RoleM == S_Role \o <<"m">>

\* the data rows an edited file is made of
InputRows ==
    {<<<<>>, <<>>, RoleM, s>> : s \in {Plus, Minus}}
    \cup {<<<<"c">>, <<>>, <<>>>>}
    \cup {<<<<"c">>, <<>>, RoleM, s>> : s \in {Plus, Slash}}
    \cup {<<<<"c">>, <<"x">>, t>> : t \in {<<>>, S_Synced}}
    \cup {<<<<"c">>, <<"x">>, RoleM, s>> : s \in {Plus, Minus}}
    \cup {<<<<>>, <<"x">>, <<>>>>, <<<<"z">>, <<>>, <<>>>>,
          <<<<"c">>, <<"x">>, S_User \o <<"7", " ", "u">>, Minus>>}

\* the rows of the channel "x" and of its category without a sign column
\* or with a "+"
ChannelRowsOnly ==
    {<<<<"c">>, <<>>, <<>>>>, <<<<"c">>, <<"x">>, <<>>>>, <<<<"c">>, <<"x">>, S_Synced>>,
     <<<<"c">>, <<"x">>, RoleM, Plus>>}

\* the files of at most n data rows under the short header, and the files
\* of n + 1 rows of the channel and its category
Files(n) ==
    {<<ShortHeader>> \o rows : rows \in UNION {[1..k -> InputRows] : k \in 1..n}}
    \cup {<<ShortHeader>> \o rows : rows \in [1..(n + 1) -> ChannelRowsOnly]}

\* the persistence plugin with nothing stored and nobody in the guild
NoPersistence ==
    [conf |-> {}, roles |-> {}, members |-> <<>>, member_roles |-> <<>>, session |-> <<>>]

\* the sql command not invoked
NoSql == [pc |-> "off", args |-> 0, outputs |-> <<>>, total_len |-> 0, error |-> NoError,
          text |-> 0, tx |-> "none"]

\* no second invocation
NoOther ==
    [pc |-> "off", csv |-> <<>>, actions |-> <<>>, output |-> <<>>, error |-> NoError,
     done |-> 0, during |-> FALSE, seen |-> 0]

InitWith(guilds, files) ==
    /\ persistence = NoPersistence
    /\ sql = NoSql
    /\ other = NoOther
    /\ guild \in guilds
    /\ attachment \in files
    /\ file = <<>>
    /\ pc = "idle"
    /\ csv = <<>>
    /\ actions = <<>>
    /\ output = <<>>
    /\ error = NoError
    /\ reaction = "none"
    /\ done = 0
    /\ edits = <<>>
    /\ sent = <<>>
    /\ before = guild
    /\ imports = 0

Init == InitWith(SmallGuilds, Files(MaxRows))

Next ==
    \/ ImportAttachment
    \/ React
    \/ ApplyAction
    \/ ApplyRaise
    \/ SendSuccess

\* one invocation of importperms
Spec == Init /\ [][Next]_vars

F2 == PermFlags[2]

\* the overwrites of an exported channel: none, one of a role, or one of a
\* role after one of a member
ExportOverwriteChoices ==
    {<<>>,
     <<Overwrite(RoleTarget(2), {F1}, {})>>,
     <<Overwrite(MemberTarget(7), {F2}, {}), Overwrite(RoleTarget(2), {}, {F1})>>}

\* a category, a text channel and a voice channel; names may repeat, also
\* with a name that reads like a disambiguated one, and so may role names
ExportGuilds ==
    {[roles |-> <<Role(1, <<"e">>, {}), Role(2, n2, p)>>,
      members |-> <<[id |-> 7, name |-> <<"u">>]>>,
      channels |-> <<Channel(3, <<"a">>, "category", NoCategory, 0, ow3),
                     Channel(4, n4, "text", c4, 0, ow4),
                     Channel(5, n5, "voice", c5, 1, <<>>)>>] :
        n2 \in {<<"e">>, <<"m">>}, p \in {{}, {F1}},
        n4 \in {<<"a">>, <<"b">>}, c4 \in {NoCategory, 3},
        n5 \in {<<"a">>, <<"b">>, <<"a", " ", "(", "1", ")">>}, c5 \in {NoCategory, 3},
        ow3 \in ExportOverwriteChoices, ow4 \in ExportOverwriteChoices}

InitRoundTrip == InitWith(ExportGuilds, {<<>>})

NextRoundTrip ==
    \/ ExportPerms
    \/ ImportExported
    \/ React
    \/ ApplyAction
    \/ ApplyRaise
    \/ SendSuccess

\* exportperms, and importperms of the file it sent
SpecRoundTrip == InitRoundTrip /\ [][NextRoundTrip]_vars

RECURSIVE Arrangements(_)
\* the sequences without repetition of elements of S, of every length
Arrangements(S) ==
    {<<>>} \cup UNION {{<<x>> \o r : r \in Arrangements(S \ {x})} : x \in S}

\* the overwrites of a role allow the first flag, those of a member deny
\* the second
OverwriteOf(target) ==
    IF target.type = "role" THEN Overwrite(target, {F1}, {}) ELSE Overwrite(target, {}, {F2})

\* three roles in rank order (guild.roles lists the lowest first), two
\* members, a category and a text channel whose overwrites mapping holds
\* any of the targets in any order
OrderGuilds ==
    {[roles |-> <<Role(1, <<"e">>, {}), Role(2, <<"m">>, p), Role(8, <<"n">>, {})>>,
      members |-> <<[id |-> 6, name |-> <<"v">>], [id |-> 7, name |-> <<"u">>]>>,
      channels |-> <<Channel(3, <<"c">>, "category", NoCategory, 0,
                             <<OverwriteOf(RoleTarget(8))>>),
                     Channel(4, <<"x">>, "text", cat, 0,
                             [i \in 1..Len(ts) |-> OverwriteOf(ts[i])])>>] :
        p \in {{}, {F1}}, cat \in {NoCategory, 3},
        ts \in Arrangements({RoleTarget(2), RoleTarget(8), MemberTarget(6), MemberTarget(7)})}

InitExport == InitWith(OrderGuilds, {<<>>})

\* exportperms alone
SpecExport == InitExport /\ [][ExportPerms]_vars

\* the guilds of SmallGuilds whose category has no overwrite
PlainGuilds == {g \in SmallGuilds : g.channels[1].overwrites = <<>>}

\* header cells after the third: the flags, a name that is no attribute of
\* discord.Permissions, and a name of an attribute that is not a flag
HeaderCells == {<<F1>>, <<F2>>, <<"FLY">>, <<"value">>}

Headers ==
    {<<S_Category, S_Channel, S_RoleUser>> \o cols :
        cols \in UNION {[1..k -> HeaderCells] : k \in 1..2}}
    \cup {<<S_Category, S_Channel>>, <<S_Channel, S_Category, S_RoleUser>>}

\* data rows with up to two sign cells
SignedRows ==
    {<<<<>>, <<>>, RoleM, Plus, Minus>>, <<<<"c">>, <<"x">>, RoleM, Slash, Plus>>,
     <<<<"c">>, <<"x">>, <<>>>>, <<<<>>, <<>>, RoleM>>}

HeaderFiles ==
    {<<h>> \o rows : h \in Headers, rows \in UNION {[1..k -> SignedRows] : k \in 0..2}}

\* rows at fault, one for each test of the row loop, and three sound rows
FaultRows ==
    {<<<<>>, <<>>>>,
     <<<<>>, <<>>, S_Role \o <<"z">>, Plus>>,
     <<<<>>, <<>>, <<"m">>, Plus>>,
     <<<<"z">>, <<>>, <<>>>>,
     <<<<"x">>, <<>>, <<>>>>,
     <<<<"z">>, <<"x">>, <<>>>>,
     <<<<"c">>, <<"z">>, <<>>>>,
     <<<<"c">>, <<"c">>, <<>>>>,
     <<<<"c">>, <<"x">>, S_User \o <<"9", " ", "q">>, Minus>>,
     <<<<"c">>, <<"x">>, S_User \o <<"q">>, Minus>>,
     <<<<"c">>, <<"x">>, S_User, Minus>>,
     <<<<"c">>, <<"x">>, <<"m">>, Plus>>,
     <<<<"c">>, <<>>, S_Synced>>,
     <<<<>>, <<"x">>, S_Synced>>,
     <<<<>>, <<>>, RoleM, Plus>>,
     <<<<"c">>, <<"x">>, RoleM, Plus>>,
     <<<<"c">>, <<"x">>, S_Synced>>}

FaultFiles == {<<ShortHeader>> \o rows : rows \in UNION {[1..k -> FaultRows] : k \in 1..MaxRows}}

InitInput == InitWith(PlainGuilds, HeaderFiles \cup FaultFiles)

\* one invocation of importperms on a file with any header or a row at fault
SpecInput == InitInput /\ [][Next]_vars

\* the numbers of permission columns of a wide header: the notes of two
\* rows fit one message up to 41 columns, and the note of one row is longer
\* than a message from 84 columns on
Widths == {1, 41, 42, 83, 84}

WideHeader(w) == <<S_Category, S_Channel, S_RoleUser>> \o [i \in 1..w |-> <<F1>>]

\* a row with a "+" in each of w columns
WideRow(cat, chan, target, w) == <<cat, chan, target>> \o [i \in 1..w |-> Plus]

WideRows(w) ==
    {WideRow(<<>>, <<>>, RoleM, w), WideRow(<<>>, <<>>, S_Role \o <<"e">>, w),
     WideRow(<<"c">>, <<>>, RoleM, w), WideRow(<<"c">>, <<"x">>, RoleM, w),
     WideRow(<<"c">>, <<"x">>, S_User \o <<"7">>, w), <<<<"c">>, <<"x">>, <<>>>>}

WideFiles ==
    UNION {{<<WideHeader(w)>> \o rows : rows \in UNION {[1..k -> WideRows(w)] : k \in 1..MaxRows}} :
            w \in Widths}

InitPreview == InitWith(PlainGuilds, WideFiles)

\* one invocation of importperms on a file whose header repeats a column
SpecPreview == InitPreview /\ [][Next]_vars

\* files of one row, a role row or an overwrite row of role m on channel
\* x, and files of one of each
TwoFiles ==
    {<<ShortHeader, <<<<>>, <<>>, RoleM, s>>>> : s \in {Plus, Minus}}
    \cup {<<ShortHeader, <<<<"c">>, <<"x">>, RoleM, s>>>> : s \in {Plus, Minus}}
    \cup {<<ShortHeader, <<<<>>, <<>>, RoleM, s>>, <<<<"c">>, <<"x">>, RoleM, t>>>> :
            s \in {Plus, Minus}, t \in {Plus, Minus}}

\* the guilds of PlainGuilds with the channel in the category
TwoGuilds == {g \in PlainGuilds : g.channels[2].category_id = 3}

InitTwo ==
    /\ persistence = NoPersistence
    /\ sql = NoSql
    /\ other \in {[NoOther EXCEPT !.pc = "idle", !.csv = f] : f \in TwoFiles}
    /\ guild \in TwoGuilds
    /\ attachment \in TwoFiles
    /\ file = <<>>
    /\ pc = "idle"
    /\ csv = <<>>
    /\ actions = <<>>
    /\ output = <<>>
    /\ error = NoError
    /\ reaction = "none"
    /\ done = 0
    /\ edits = <<>>
    /\ sent = <<>>
    /\ before = guild
    /\ imports = 0

NextTwo ==
    \/ Next
    \/ OtherImport
    \/ OtherReact
    \/ OtherApplyAction
    \/ OtherApplyRaise
    \/ OtherSendSuccess

\* two invocations of importperms on one guild
SpecTwo == InitTwo /\ [][NextTwo]_vars

(***************************************************************************)
(* Role persistence (src/plugins/persistence.py).  persistence.conf is     *)
(* conf.roles, .roles the ids of the roles the guild has, .members the     *)
(* presence and roles of each user, .member_roles the committed rows of    *)
(* the table persistence.member_roles as the number of rows per            *)
(* (user_id, role_id), .session the transaction on_member_join holds open  *)
(* while it awaits add_roles.                                              *)
(***************************************************************************)
MaxUsers == 2

MaxRoleIds == 2

Users == 1..MaxUsers

RoleIds == 1..MaxRoleIds

NoSession == [pc |-> "none", returned |-> {}, roles |-> {}, last |-> "none"]

\* the role ids of the rows stored for the user
StoredRoles(p, user) == {r \in RoleIds : p.member_roles[<<user, r>>] > 0}

\* lines 49-51: insert(MemberRole).values(...).on_conflict_do_nothing(...)
InsertOnConflictDoNothing(table, user, role_ids) ==
    [k \in DOMAIN table |->
        IF k[1] = user /\ k[2] \in role_ids /\ table[k] = 0 THEN 1 ELSE table[k]]

\* lines 58-60: delete(MemberRole).where(MemberRole.user_id == member.id)
DeleteWhereUser(table, user) ==
    [k \in DOMAIN table |-> IF k[1] = user THEN 0 ELSE table[k]]

\* line 67: session.commit() makes the delete of the open transaction
\* permanent
CommitSession(p, user, last) ==
    [p EXCEPT !.member_roles = DeleteWhereUser(@, user),
              !.session[user] = [NoSession EXCEPT !.last = last]]

\* a session whose close makes the delete permanent
CloseSessionCommitted(p, user, last) == CommitSession(p, user, last)

\* the "async with" block of line 57 is left without a commit (the return of
\* line 65, or an exception of add_roles): the session is closed and its
\* transaction rolled back
CloseSession(p, user, last) ==
    [p EXCEPT !.session[user] = [NoSession EXCEPT !.last = last]]

\* lines 44-53: the member has left the guild
on_member_remove(user) ==
    /\ persistence.members[user].present
    /\ persistence.session[user].pc = "none"
    /\ LET role_ids == persistence.members[user].roles \cap persistence.conf IN
       persistence' = [persistence EXCEPT
           !.member_roles = IF role_ids = {} THEN @
                            ELSE InsertOnConflictDoNothing(@, user, role_ids),
           !.members[user] = [present |-> FALSE, roles |-> {}]]
    /\ UNCHANGED <<sql, other, guild, attachment, file, pc, csv, actions, output, error,
                   reaction, done, edits, sent, before, imports>>

\* lines 56-65: the user has joined; the delete runs inside the session's
\* transaction, and with no stored role left in the guild the handler returns
on_member_join(user) ==
    /\ ~persistence.members[user].present
    /\ persistence.session[user].pc = "none"
    /\ LET returned == StoredRoles(persistence, user)
           roles == {r \in returned : r \in persistence.roles}
           joined == [persistence EXCEPT !.members[user] = [present |-> TRUE, roles |-> {}]]
       IN  persistence' =
             IF roles = {} THEN CloseSession(joined, user, "returned")
             ELSE [joined EXCEPT !.session[user] =
                      [pc |-> "add_roles", returned |-> returned, roles |-> roles,
                       last |-> "none"]]
    /\ UNCHANGED <<sql, other, guild, attachment, file, pc, csv, actions, output, error,
                   reaction, done, edits, sent, before, imports>>

\* lines 66-67: add_roles succeeds, then the commit
AddRolesDone(user) ==
    /\ persistence.session[user].pc = "add_roles"
    /\ persistence.session[user].roles \subseteq persistence.roles
    /\ persistence' = CommitSession(
           [persistence EXCEPT !.members[user].roles = @ \cup persistence.session[user].roles],
           user, "committed")
    /\ UNCHANGED <<sql, other, guild, attachment, file, pc, csv, actions, output, error,
                   reaction, done, edits, sent, before, imports>>

\* line 66: add_roles raises (a role was deleted meanwhile, or the request
\* failed), the exception leaves the handler
AddRolesRaise(user) ==
    /\ persistence.session[user].pc = "add_roles"
    /\ persistence' = CloseSession(persistence, user, "raised")
    /\ UNCHANGED <<sql, other, guild, attachment, file, pc, csv, actions, output, error,
                   reaction, done, edits, sent, before, imports>>

\* a moderator gives a present member a role of the guild
GiveRole(user, r) ==
    /\ persistence.members[user].present
    /\ r \in persistence.roles /\ r \notin persistence.members[user].roles
    /\ persistence' = [persistence EXCEPT !.members[user].roles = @ \cup {r}]
    /\ UNCHANGED <<sql, other, guild, attachment, file, pc, csv, actions, output, error,
                   reaction, done, edits, sent, before, imports>>

\* a role of the guild is deleted: every member loses it, get_role returns
\* None for it from now on
DeleteGuildRole(r) ==
    /\ r \in persistence.roles
    /\ persistence' = [persistence EXCEPT
           !.roles = @ \ {r},
           !.members = [u \in Users |-> [@[u] EXCEPT !.roles = @ \ {r}]]]
    /\ UNCHANGED <<sql, other, guild, attachment, file, pc, csv, actions, output, error,
                   reaction, done, edits, sent, before, imports>>

\* the commands of the other plugins are not invoked
BulkPermsOff ==
    /\ other = NoOther
    /\ guild = [roles |-> <<>>, channels |-> <<>>, members |-> <<>>]
    /\ attachment = <<>>
    /\ file = <<>>
    /\ pc = "off"
    /\ csv = <<>>
    /\ actions = <<>>
    /\ output = <<>>
    /\ error = NoError
    /\ reaction = "none"
    /\ done = 0
    /\ edits = <<>>
    /\ sent = <<>>
    /\ before = guild
    /\ imports = 0

\* every role exists, every user is in the guild without roles, nothing is
\* stored; conf.roles is any list of role ids
InitPersistence ==
    /\ BulkPermsOff
    /\ sql = NoSql
    /\ \E conf \in SUBSET RoleIds :
        persistence = [conf |-> conf,
                       roles |-> RoleIds,
                       members |-> [u \in Users |-> [present |-> TRUE, roles |-> {}]],
                       member_roles |-> [k \in Users \X RoleIds |-> 0],
                       session |-> [u \in Users |-> NoSession]]

NextPersistence ==
    \/ \E user \in Users : on_member_remove(user)
    \/ \E user \in Users : on_member_join(user)
    \/ \E user \in Users : AddRolesDone(user)
    \/ \E user \in Users : AddRolesRaise(user)
    \/ \E user \in Users, r \in RoleIds : GiveRole(user, r)
    \/ \E r \in RoleIds : DeleteGuildRole(r)

\* member-leave and member-join events of a guild whose roles are given to
\* members and deleted
SpecPersistence == InitPersistence /\ [][NextPersistence]_vars

(***************************************************************************)
(* The sql command (src/plugins/db_manager.py).  sql.args is the number of *)
(* code arguments still to execute, .outputs the list "outputs": a status  *)
(* or error text, or the rows of a result (the lists of data_outputs are   *)
(* the same objects as the lists in outputs), .total_len the running       *)
(* estimate, .text the length of the text that was sent.                   *)
(***************************************************************************)
MaxArgs == 3

OutputLimit == 2000

FetchLimit == 1000

\* a text of n characters
Text(n) == [i \in 1..n |-> "x"]

Dots == <<".", ".", ".">>

StrOutput(text) == [kind |-> "str", text |-> text, rows |-> <<>>]

ListOutput(rows) == [kind |-> "list", text |-> <<>>, rows |-> rows]

\* lines 72-75: "data" for a result of n rows whose lines are w long, under a
\* header line, with the marker when the fetch was cut at 1000 rows
Data(n, w) ==
    <<Text(1)>> \o [i \in 1..n |-> Text(w)] \o (IF n = FetchLimit THEN <<Dots>> ELSE <<>>)

\* what executing one statement appends to outputs: the formatted error, or
\* the status message alone, or the status message and the data (results of
\* one row and of three long rows; a result cut at FetchLimit rows starts
\* where the loop brings the others after its first step on them)
StatementOutputs ==
    {<<StrOutput(Text(30))>>, <<StrOutput(Text(2100))>>, <<StrOutput(Text(8))>>,
     <<StrOutput(Text(8)), ListOutput(Data(1, 1))>>,
     <<StrOutput(Text(8)), ListOutput(Data(3, 900))>>}

RECURSIVE output_len(_)
\* lines 79-80: sum(len(row) + 1 for row in output)
output_len(rows) ==
    IF rows = <<>> THEN 0
    ELSE IF Len(rows) = 1 THEN Len(rows[1]) + 1
    ELSE LET half == Len(rows) \div 2
         IN  output_len(SubSeq(rows, 1, half)) + output_len(SubSeq(rows, half + 1, Len(rows)))

RECURSIVE TotalLen(_)
\* lines 82-84
TotalLen(outputs) ==
    IF outputs = <<>> THEN 0
    ELSE (IF Head(outputs).kind = "list" THEN 4 + output_len(Head(outputs).rows) + 4
          ELSE Len(Head(outputs).text) + 1) + TotalLen(Tail(outputs))

\* the positions in outputs of the lists of data_outputs
DataOutputs(outputs) == {i \in 1..Len(outputs) : outputs[i].kind = "list"}

\* any(data_outputs): some list is not empty
AnyData(outputs) == \E i \in DataOutputs(outputs) : outputs[i].rows # <<>>

\* line 87: max(data_outputs, key=output_len), the first of the longest
MaxData(outputs) ==
    CHOOSE i \in DataOutputs(outputs) :
        \A j \in DataOutputs(outputs) :
            \/ output_len(outputs[j].rows) < output_len(outputs[i].rows)
            \/ output_len(outputs[j].rows) = output_len(outputs[i].rows) /\ i <= j

\* lst.pop(k) for a position k counted from the front
Pop(lst, k) == SubSeq(lst, 1, k - 1) \o SubSeq(lst, k + 1, Len(lst))

\* len("\n".join(rows))
JoinLen(rows) == IF rows = <<>> THEN 0 ELSE output_len(rows) - 1

RECURSIVE PartsLen(_)
\* the lengths of the parts of line 96 with the newline after each: a list
\* becomes the code block "```\n" + "\n".join(output) + "```"
PartsLen(outputs) ==
    IF outputs = <<>> THEN 0
    ELSE (IF Head(outputs).kind = "list" THEN 4 + JoinLen(Head(outputs).rows) + 3
          ELSE Len(Head(outputs).text)) + 1 + PartsLen(Tail(outputs))

\* lines 96-97: the length of the text, cut at 2000
TextLen(outputs) ==
    LET n == IF outputs = <<>> THEN 0 ELSE PartsLen(outputs) - 1
    IN  IF n > OutputLimit THEN OutputLimit ELSE n

\* lines 62-77: one code argument is executed
SqlExecute ==
    /\ sql.pc = "exec" /\ sql.args > 0
    /\ \E out \in StatementOutputs :
        sql' = [sql EXCEPT !.args = @ - 1, !.outputs = @ \o out]
    /\ UNCHANGED <<persistence, other, guild, attachment, file, pc, csv, actions, output,
                   error, reaction, done, edits, sent, before, imports>>

\* lines 82-84: the arguments are done, total_len is computed
SqlMeasure ==
    /\ sql.pc = "exec" /\ sql.args = 0
    /\ sql' = [sql EXCEPT !.pc = "loop", !.total_len = TotalLen(sql.outputs)]
    /\ UNCHANGED <<persistence, other, guild, attachment, file, pc, csv, actions, output,
                   error, reaction, done, edits, sent, before, imports>>

\* lines 86-94: one iteration of the truncation loop; lst.pop(-2) raises
\* IndexError on a list of one element (the longest list is never empty
\* here: a list is created with two rows or more and every step that
\* removes a row leaves the marker)
TruncateStep ==
    /\ sql.pc = "loop"
    /\ sql.total_len > OutputLimit /\ AnyData(sql.outputs)
    /\ LET i == MaxData(sql.outputs)
           lst == sql.outputs[i].rows
       IN  IF lst[Len(lst)] = Dots
           THEN IF Len(lst) < 2
                THEN sql' = [sql EXCEPT !.pc = "end",
                                        !.error = [type |-> "IndexError", line |-> 0,
                                                   what |-> "pop", arg |-> <<>>]]
                ELSE sql' = [sql EXCEPT
                        !.outputs[i].rows = Pop(lst, Len(lst) - 1),
                        !.total_len = @ - (Len(lst[Len(lst) - 1]) + 1)]
           ELSE sql' = [sql EXCEPT
                   !.outputs[i].rows = Append(Pop(lst, Len(lst)), Dots),
                   !.total_len = @ + 4 - (Len(lst[Len(lst)]) + 1)]
    /\ UNCHANGED <<persistence, other, guild, attachment, file, pc, csv, actions, output,
                   error, reaction, done, edits, sent, before, imports>>

\* lines 96-99: the loop has ended, the text is sent; Discord refuses an
\* empty message
SqlSend ==
    /\ sql.pc = "loop"
    /\ ~(sql.total_len > OutputLimit /\ AnyData(sql.outputs))
    /\ sql' = IF TextLen(sql.outputs) = 0
              THEN [sql EXCEPT !.pc = "end",
                               !.error = [type |-> "HTTPException", line |-> 0,
                                          what |-> "send", arg |-> <<>>]]
              ELSE [sql EXCEPT !.pc = "sent", !.text = TextLen(sql.outputs)]
    /\ UNCHANGED <<persistence, other, guild, attachment, file, pc, csv, actions, output,
                   error, reaction, done, edits, sent, before, imports>>

\* lines 103-115: without a transaction id the command returns; with one
\* the invoker's reaction commits, anything else rolls back
SqlFinish ==
    /\ sql.pc = "sent"
    /\ \E tx \in {"none", "committed", "rolledback"} :
        sql' = [sql EXCEPT !.pc = "end", !.tx = tx]
    /\ UNCHANGED <<persistence, other, guild, attachment, file, pc, csv, actions, output,
                   error, reaction, done, edits, sent, before, imports>>

\* the sql command invoked with up to MaxArgs code arguments
InitSql ==
    /\ BulkPermsOff
    /\ persistence = NoPersistence
    /\ \E n \in 0..MaxArgs : sql = [NoSql EXCEPT !.pc = "exec", !.args = n]

NextSql ==
    \/ SqlExecute
    \/ SqlMeasure
    \/ TruncateStep
    \/ SqlSend
    \/ SqlFinish

SpecSql == InitSql /\ [][NextSql]_vars

NextAgain == Next \/ ImportAgain

\* the same file imported up to MaxImports times
SpecAgain == Init /\ [][NextAgain]_vars

(***************************************************************************)
(* Properties                                                              *)
(***************************************************************************)
SuccessSent == \E i \in 1..Len(sent) : sent[i].kind = "success"

Parsed == imports > 0 /\ pc \in {"prompt", "apply", "end"}

\* the locals after the loop over the rows of the file being imported,
\* against the guild the command was invoked on
RowLocals == RowLoop(before, ChannelsDict(before), HeaderFlags(csv[1]), Locals0, csv, 2)

ParsedOk == Parsed /\ error.type \notin {"UserError", "AttributeError", "IndexError",
                                         "ValueError", "StopIteration"}

Scheduled(kind, id) == {i \in 1..Len(actions) : actions[i].kind = kind /\ actions[i].id = id}

\* the overwrite the mask arithmetic of the specification gives
ClaimedTweak(old, add_mask, remove_mask, reset_mask) ==
    [allow |-> ((old.allow \ reset_mask) \ remove_mask) \cup add_mask,
     deny |-> ((old.deny \ reset_mask) \ add_mask) \cup remove_mask]

\* C2: the overwrite an overwrite edit sends for a target is
\* newAllow = (oldAllow & ~reset & ~remove) | add and
\* newDeny = (oldDeny & ~reset & ~add) | remove, so that an added flag ends
\* allowed and not denied and a removed flag denied and not allowed
TweakMaskArithmetic ==
    (pc = "apply" /\ done < Len(actions) /\ NextAction(actions, done).kind = "overwrites") =>
        LET a == NextAction(actions, done)
            channel == ChannelById(guild, a.id)
        IN  \A i \in 1..Len(a.entries) :
              LET e == a.entries[i]
                  old == overwrites_for(channel, e.target)
                  new == tweak_overwrite(old, e.add, e.remove, e.reset)
              IN  /\ new = ClaimedTweak(old, e.add, e.remove, e.reset)
                  /\ e.add \subseteq new.allow /\ e.add \cap new.deny = {}
                  /\ e.remove \subseteq new.deny /\ e.remove \cap new.allow = {}

\* C4: no scheduled edit runs unless get_reaction returned the invoker's
\* confirmation; after a decline, a timeout or an import without notes the
\* guild is as it was and no edit has run
ConfirmationGate ==
    /\ (edits # <<>> \/ done > 0 \/ pc = "apply") => reaction = "confirm"
    /\ reaction # "confirm" => guild = before
    /\ (Parsed /\ error = NoError /\ output = <<>>) =>
          pc = "end" /\ reaction = "none" /\ edits = <<>>
    /\ SuccessSent => reaction = "confirm"

\* C4 witness: edits were scheduled, the invoker declined, nothing ran
DeclinedWithActions ==
    pc = "end" /\ reaction = "decline" /\ Len(actions) > 1 /\ edits = <<>> /\ guild = before

KindRank(kind) == IF kind \in {"role", "move"} THEN 1 ELSE IF kind = "overwrites" THEN 2 ELSE 3

\* C5: the edits run one by one in scheduling order, each once (what has run
\* is always the first done scheduled edits), the edits of the row loop are
\* scheduled before those of the later passes, and the success mark is sent
\* only after the last edit has run
ApplyInOrder ==
    /\ Len(edits) = done
    /\ done <= Len(actions)
    /\ edits = SubSeq(actions, 1, done)
    /\ \A i, j \in 1..Len(actions) : i < j => KindRank(actions[i].kind) <= KindRank(actions[j].kind)
    /\ SuccessSent => edits = actions /\ pc = "end"
    /\ (pc = "end" /\ reaction = "confirm" /\ error = NoError) =>
          edits = actions /\ sent[Len(sent)].kind = "success"

\* C5 witness: three different edits have run in order and the mark is sent
AllAppliedInOrder ==
    /\ SuccessSent
    /\ Len(actions) >= 3
    /\ actions[1] # actions[2] /\ actions[2] # actions[3]
    /\ edits = actions

RECURSIVE ApplyAll(_, _)
\* the guild after these edits have run in order
ApplyAll(g, es) == IF Len(es) = 0 THEN g ELSE ApplyAll(ApplyEdit(g, es[1]), Tail(es))

EditFailed == error.type = "HTTPException" /\ error.what = "edit"

\* C6: when a scheduled edit fails, the edits before it stay applied, the
\* ones after it never run, the exception ends the command and no success
\* mark is sent
PartialFailure ==
    EditFailed =>
        /\ pc = "end"
        /\ done < Len(actions)
        /\ edits = SubSeq(actions, 1, done)
        /\ guild = ApplyAll(before, edits)
        /\ ~SuccessSent

\* C6 witness: the second of three edits failed after the first changed the
\* guild
FailedInTheMiddle ==
    EditFailed /\ pc = "end" /\ done = 1 /\ Len(actions) = 3 /\ guild # before

Touched(chan) == HasKey(RowLocals.new_overwrites, chan)

MovedInInput(chan) == \E m \in RowLocals.seen_moved : m[1] = chan

\* some row of the channel has a nonzero mask, or a live target of the
\* channel has no row
ChangedInInput(chan) ==
    /\ Touched(chan)
    /\ LET entries == EntriesOf(RowLocals.new_overwrites, chan)
       IN  AnyMask(entries) \/ Len(StaleTargets(ChannelById(before, chan), entries)) > 0

\* C8: for a channel marked (synced) that is already synced and not moved,
\* a sync is scheduled exactly when the overwrites of its category changed
\* in this import
SyncScheduling ==
    ParsedOk =>
        \A x \in RowLocals.want_sync :
            LET channel == ChannelById(before, x) IN
            (permissions_synced(before, channel) /\ ~MovedInInput(x)) =>
                (Scheduled("sync", x) # {} <=> ChangedInInput(CategoryOf(before, channel)))

\* C9: a touched channel that is not marked synced gets exactly one overwrite
\* edit when a mask of its rows is nonzero or a live target has no row, and
\* none otherwise
OverwriteEditScheduling ==
    ParsedOk =>
        \A i \in 1..Len(RowLocals.new_overwrites) :
            LET chan == RowLocals.new_overwrites[i].chan IN
            chan \notin RowLocals.want_sync =>
                Cardinality(Scheduled("overwrites", chan)) = IF ChangedInInput(chan) THEN 1 ELSE 0

\* C10: a channel with a (synced) row never gets an overwrite edit
SyncedNoOverwriteEdit ==
    ParsedOk => \A x \in RowLocals.want_sync : Scheduled("overwrites", x) = {}

\* no two data rows of the file name the same role, or the same channel and
\* target, no channel is named under two categories, and a channel with a
\* (synced) row has no other row
ConsistentFile(f) ==
    \A i, j \in 2..Len(f) :
        (i # j /\ Len(f[i]) >= 3 /\ Len(f[j]) >= 3) =>
            /\ ~(f[i][1] = f[j][1] /\ f[i][2] = f[j][2] /\ f[i][3] = f[j][3])
            /\ (f[i][2] # <<>> /\ f[i][2] = f[j][2]) => f[i][1] = f[j][1]
            /\ (f[i][2] # <<>> /\ f[i][3] = S_Synced) => f[i][2] # f[j][2]

\* C3: importing the same file again, after its non-empty diff was confirmed
\* and applied, yields no change note
Idempotence ==
    (imports >= 2 /\ Parsed /\ error = NoError /\ ConsistentFile(csv)) => output = <<>>

\* C1: importing the unmodified file exportperms wrote for the guild yields
\* no change note and schedules no edit
RoundTripNoChanges ==
    (Parsed /\ csv = exportperms(before)) =>
        error = NoError /\ output = <<>> /\ actions = <<>>

\* C7: the label exportperms writes for a channel is resolved by the lookup
\* of importperms to that channel, and no two channels get the same label
DisambiguationRoundTrip ==
    (file # <<>> /\ file = exportperms(guild)) =>
        LET channels == ChannelsDict(guild) IN
        \A i \in 1..Len(guild.channels) :
            /\ InChannels(channels, disambiguated_name(guild, guild.channels[i]))
            /\ ChannelsGet(channels, disambiguated_name(guild, guild.channels[i])).id
                 = guild.channels[i].id
            /\ \A j \in 1..Len(guild.channels) :
                 i # j => disambiguated_name(guild, guild.channels[i])
                            # disambiguated_name(guild, guild.channels[j])

Exported == file # <<>> /\ file = exportperms(guild)

\* rows i and j of the exported file are overwrite rows of one channel
SameChannelRows(i, j) ==
    /\ file[i][1] = file[j][1] /\ file[i][2] = file[j][2]
    /\ file[i][2] # <<>> \/ file[i][1] # <<>>
    /\ StartsWith(file[i][3], S_Role) \/ StartsWith(file[i][3], S_User)
    /\ StartsWith(file[j][3], S_Role) \/ StartsWith(file[j][3], S_User)

\* the place in guild.roles of the role an exported row names
RankOfRow(i) ==
    CHOOSE k \in 1..Len(guild.roles) : guild.roles[k].name = RemovePrefix(file[i][3], S_Role)

IsFlagCell(cell) == Len(cell) = 1 /\ cell[1] \in FlagNames

\* the columns after the third whose name is not a permission flag
UnknownColumns(header) == {i \in 4..Len(header) : ~IsFlagCell(header[i])}

\* C12: a header with valid first three columns and a column that is not a
\* permission flag makes importperms fail with a user error naming the
\* first such column, before any data row is processed
UnknownPermissionColumn ==
    (Parsed /\ ValidHeader(csv[1]) /\ UnknownColumns(csv[1]) # {}) =>
        /\ error.type = "UserError"
        /\ error.what = "Unknown permission"
        /\ \E i \in UnknownColumns(csv[1]) :
             /\ error.arg = csv[1][i]
             /\ \A j \in UnknownColumns(csv[1]) : i <= j
        /\ output = <<>> /\ actions = <<>> /\ sent = <<>>

\* the Role/User cell names no role of the guild and no member by number
TargetFault(g, cell) ==
    IF StartsWith(cell, S_Role) THEN ~InRoles(g, RemovePrefix(cell, S_Role))
    ELSE IF StartsWith(cell, S_User)
    THEN LET id == TakeWord(LStrip(RemovePrefix(cell, S_User)))
         IN  ~IsIntLiteral(id) \/ ~IsMember(g, StrToInt(id))
    ELSE TRUE

\* the row is at fault in itself: too short, or it names an unknown role,
\* channel, category or member, a channel where a category is required or
\* the reverse, or a target that is neither a role nor a user
RowFault(g, row) ==
    \/ Len(row) < 3
    \/ /\ Len(row) >= 3
       /\ IF row[1] = <<>> /\ row[2] = <<>>
          THEN ~StartsWith(row[3], S_Role) \/ ~InRoles(g, RemovePrefix(row[3], S_Role))
          ELSE LET channels == ChannelsDict(g) IN
               \/ row[1] # <<>> /\ ~InChannels(channels, row[1])
               \/ row[1] # <<>> /\ InChannels(channels, row[1])
                    /\ ~IsCategory(ChannelsGet(channels, row[1]))
               \/ row[2] # <<>> /\ ~InChannels(channels, row[2])
               \/ row[2] # <<>> /\ InChannels(channels, row[2])
                    /\ IsCategory(ChannelsGet(channels, row[2]))
               \/ row[3] # <<>> /\ (row[2] = <<>> \/ row[3] # S_Synced)
                    /\ TargetFault(g, row[3])

\* the (synced) rows of channels left with no category by the file
SyncFaultLines ==
    IF \E i \in 2..Len(csv) : RowFault(before, csv[i]) THEN {}
    ELSE {i \in 2..Len(csv) :
            /\ csv[i][3] = S_Synced /\ csv[i][2] # <<>>
            /\ LET x == ChannelsGet(ChannelsDict(before), csv[i][2]).id
               IN  x \in RowLocals.want_sync /\ NewCategory(before, RowLocals, ChannelById(before, x)) = NoCategory}

FaultLines == {i \in 2..Len(csv) : RowFault(before, csv[i])} \cup SyncFaultLines

\* C13: a file with a row at fault ends importperms with a user error that
\* names the line of such a row (the error for a synced channel with no
\* category names the channel); no prompt is sent and no scheduled edit runs
NoPartialApplyOnInputError ==
    (Parsed /\ HeaderError(csv[1]) = NoError /\ UnknownColumns(csv[1]) = {}
       /\ FaultLines # {}) =>
        /\ error.type = "UserError"
        /\ \/ error.line \in FaultLines
           \/ SyncFaultLines # {} /\ error.what = "Cannot sync channel with no category"
        /\ pc = "end" /\ sent = <<>> /\ edits = <<>> /\ guild = before

\* the lines of the file with empty Category and Channel cells
RoleRowLines ==
    {i \in 2..Len(csv) : Len(csv[i]) >= 3 /\ csv[i][1] = <<>> /\ csv[i][2] = <<>>}

\* the flags a role row marks with this sign
MarkedFlags(i, sign) ==
    {csv[1][k][1] : k \in {c \in 4..Min(Len(csv[1]), Len(csv[i])) : csv[i][c] = sign}}

RowRole(i) == RolesGet(before, RemovePrefix(csv[i][3], S_Role))

ClaimedAddMask(i) == MarkedFlags(i, Plus) \ RowRole(i).permissions

ClaimedRemoveMask(i) == MarkedFlags(i, Minus) \cap RowRole(i).permissions

\* the notes that list exactly the flags of the masks of role row i
RoleNotesOf(i) ==
    {n \in 1..Len(output) :
        /\ output[n].kind = "role" /\ output[n].id = RowRole(i).id
        /\ MaskOf(output[n].changes, "allow") = ClaimedAddMask(i)
        /\ MaskOf(output[n].changes, "deny") = ClaimedRemoveMask(i)
        /\ Len(output[n].changes)
             = Cardinality(ClaimedAddMask(i)) + Cardinality(ClaimedRemoveMask(i))}

RoleEditsOf(i) ==
    {n \in 1..Len(actions) :
        actions[n] = RoleEdit(RowRole(i).id, ClaimedAddMask(i), ClaimedRemoveMask(i))}

ChangingRoleRows == {i \in RoleRowLines : ClaimedAddMask(i) \cup ClaimedRemoveMask(i) # {}}

\* C14: a role row adds the flags marked + that the role lacks and removes
\* the flags marked - that it has; its note and its role edit exist exactly
\* when a mask is nonzero, one of each per such row; and a role edit that
\* runs sets the permissions to (permissions & ~removeMask) | addMask
RoleRows ==
    /\ [](ParsedOk =>
            /\ \A i \in RoleRowLines :
                 /\ (i \in ChangingRoleRows) <=> RoleNotesOf(i) # {}
                 /\ RoleNotesOf(i) # {} <=> RoleEditsOf(i) # {}
            /\ Cardinality({n \in 1..Len(output) : output[n].kind = "role"})
                 = Cardinality(ChangingRoleRows)
            /\ Cardinality({n \in 1..Len(actions) : actions[n].kind = "role"})
                 = Cardinality(ChangingRoleRows))
    /\ [][(pc = "apply" /\ done' = done + 1 /\ NextAction(actions, done).kind = "role") =>
            LET a == NextAction(actions, done) IN
            /\ RoleById(guild', a.id).permissions
                 = (RoleById(guild, a.id).permissions \ a.remove) \cup a.add
            /\ \A r \in Range(guild.roles) : r.id # a.id => r \in Range(guild'.roles)
            /\ guild'.channels = guild.channels]_vars

\* C14 witness: a role edit that adds one flag and removes another has run
RoleEditAppliedBothMasks ==
    /\ edits # <<>>
    /\ edits[1].kind = "role" /\ edits[1].add # {} /\ edits[1].remove # {}
    /\ RoleById(guild, edits[1].id).permissions
         = (RoleById(before, edits[1].id).permissions \ edits[1].remove) \cup edits[1].add
    /\ RoleById(guild, edits[1].id).permissions # RoleById(before, edits[1].id).permissions

\* the texts of the preview that were handed to ctx.send
PreviewTexts == SelectSeq(sent, LAMBDA m : m.kind = "text")

\* C15: every preview message is non-empty and at most 2000 characters
\* long, and the messages hold the notes whole, each once, in the order
\* they were recorded, the prompt being put on the last message
PreviewSplitting ==
    (Parsed /\ error.type \in {"none", "HTTPException"} /\ output # <<>>) =>
        /\ \A i \in 1..Len(PreviewTexts) :
             PreviewTexts[i].len > 0 /\ PreviewTexts[i].len <= MessageLimit
        /\ Concat([i \in 1..Len(PreviewTexts) |-> PreviewTexts[i].notes]) = output
        /\ pc = "prompt" => sent # <<>> /\ sent[Len(sent)].kind = "text"

\* the guild has, for every sign of a role row or an overwrite row of the
\* file, the value the sign asks for
Satisfied(g, f) ==
    \A i \in 2..Len(f) : \A k \in 4..Min(Len(f[1]), Len(f[i])) :
        LET flag == f[1][k][1] IN
        IF f[i][1] = <<>> /\ f[i][2] = <<>>
        THEN LET role == RolesGet(g, RemovePrefix(f[i][3], S_Role)) IN
             /\ f[i][k] = Plus => flag \in role.permissions
             /\ f[i][k] = Minus => flag \notin role.permissions
        ELSE LET channel == ChannelsGet(ChannelsDict(g), IF f[i][2] = <<>> THEN f[i][1] ELSE f[i][2])
                 ow == overwrites_for(channel, ResolveTarget(g, f[i][3], i).target)
             IN  /\ f[i][k] = Plus => flag \in ow.allow /\ flag \notin ow.deny
                 /\ f[i][k] = Minus => flag \in ow.deny /\ flag \notin ow.allow
                 /\ f[i][k] = Slash => flag \notin ow.allow /\ flag \notin ow.deny

\* both invocations were confirmed and have run all their edits, the second
\* one having parsed while the first was between its parse and its end
BothApplied ==
    /\ pc = "end" /\ SuccessSent /\ actions # <<>>
    /\ other.pc = "success" /\ other.actions # <<>>
    /\ other.during

\* C16: after two interleaved invocations have both finished, the guild has
\* the value asked for by every sign of the file of the invocation whose
\* edit ran last
LastToApplyWins ==
    (BothApplied /\ ConsistentFile(csv) /\ ConsistentFile(other.csv)) =>
        IF other.seen = Len(edits) THEN Satisfied(guild, other.csv) ELSE Satisfied(guild, csv)


\* the change notes of the parsed file that name the channel
NotesOf(kinds, chan) ==
    {i \in 1..Len(output) : output[i].kind \in kinds /\ output[i].id = chan}

\* C17: in the overwrite pass a touched channel is skipped only when that
\* channel itself is marked synced: a non-synced channel with an overwrite
\* change note has an overwrite edit scheduled, and a non-synced channel with
\* a live target that has no row gets its remove notes, whatever channel the
\* last row named
SecondPassSkipTest ==
    ParsedOk =>
        \A i \in 1..Len(RowLocals.new_overwrites) :
            LET chan == RowLocals.new_overwrites[i].chan
                stale == StaleTargets(ChannelById(before, chan),
                                      EntriesOf(RowLocals.new_overwrites, chan))
            IN  IF chan \in RowLocals.want_sync
                THEN Scheduled("overwrites", chan) = {} /\ NotesOf({"remove"}, chan) = {}
                ELSE /\ NotesOf({"overwrite"}, chan) # {} => Scheduled("overwrites", chan) # {}
                     /\ Len(stale) > 0 => NotesOf({"remove"}, chan) # {}

\* the targets with a row for the channel in the file being imported
ListedTargets(chan) ==
    {e.target : e \in Range(EntriesOf(RowLocals.new_overwrites, chan))}

\* the targets of the channel's live overwrite entries
LiveTargets(g, chan) == {o.target : o \in Range(ChannelById(g, chan).overwrites)}

\* the edit awaited as k-th was the last one on its channel so far
LastEditOnChannel(k) == \A j \in (k + 1)..Len(edits) : edits[j].id # edits[k].id

\* C18: for every touched channel not marked synced, each live overwrite
\* target with no row in the input gets a remove note and puts the channel
\* in the overwrites-changed set, and once the channel's overwrite edit has
\* run the channel has overwrite entries for exactly the targets listed for
\* it in the input
StaleOverwriteRemoval ==
    ParsedOk =>
        /\ \A i \in 1..Len(RowLocals.new_overwrites) :
              LET chan == RowLocals.new_overwrites[i].chan
                  stale == StaleTargets(ChannelById(before, chan),
                                        EntriesOf(RowLocals.new_overwrites, chan))
              IN  (chan \notin RowLocals.want_sync /\ Len(stale) > 0) =>
                      /\ \A k \in 1..Len(stale) :
                            \E n \in NotesOf({"remove"}, chan) : output[n].target = stale[k]
                      /\ chan \in ParseRows(before, csv).overwrites_changed
                      /\ Scheduled("overwrites", chan) # {}
        /\ \A k \in 1..Len(edits) :
              (edits[k].kind = "overwrites" /\ LastEditOnChannel(k)) =>
                  LiveTargets(guild, edits[k].id) = ListedTargets(edits[k].id)


\* the category the channel is synced with: the one a row of the file moves
\* it to, or else the one it is in
SyncCategory(x) == NewCategory(before, RowLocals, ChannelById(before, x))

\* C19: in the scheduled edits every sync of a channel comes after the move
\* of that channel and after the overwrite edit of the category it is synced
\* with, when these are scheduled, so that once all the edits have run the
\* channel carries the overwrites the category has after this import
SyncActionOrdering ==
    ParsedOk =>
        /\ \A s \in 1..Len(actions) :
              actions[s].kind = "sync" =>
                  /\ \A m \in Scheduled("move", actions[s].id) : m < s
                  /\ \A o \in Scheduled("overwrites", SyncCategory(actions[s].id)) : o < s
        /\ (SuccessSent /\ edits = actions) =>
              \A s \in 1..Len(actions) :
                  actions[s].kind = "sync" =>
                      LET channel == ChannelById(guild, actions[s].id) IN
                      /\ channel.category_id = SyncCategory(actions[s].id)
                      /\ permissions_synced(guild, channel)

\* all the edits have run, among them a sync of a channel that was moved to a
\* category whose overwrites this import edited
SyncedAfterMoveAndEdit ==
    /\ ParsedOk /\ SuccessSent /\ edits = actions
    /\ \E s \in 1..Len(actions) :
          /\ actions[s].kind = "sync"
          /\ Scheduled("move", actions[s].id) # {}
          /\ Scheduled("overwrites", SyncCategory(actions[s].id)) # {}
          /\ ChannelById(before, SyncCategory(actions[s].id)).overwrites
                 # ChannelById(guild, SyncCategory(actions[s].id)).overwrites
          /\ permissions_synced(guild, ChannelById(guild, actions[s].id))

\* the targets whose overwrite entry on the channel differs between g and h:
\* present in one only, or with another allow or deny mask
ChangedTargets(g, h, chan) ==
    LET a == Range(ChannelById(g, chan).overwrites)
        b == Range(ChannelById(h, chan).overwrites)
    IN  {o.target : o \in (a \ b) \cup (b \ a)}

\* C20: whenever the edits that have run changed a role's permissions, a
\* channel's category, or the targets or the allow/deny masks of a channel's
\* overwrites, the preview holds a note for that role, for that move, or for
\* that channel and target (or a sync note for the channel)
NoSilentMutation ==
    ParsedOk =>
        /\ \A r \in Range(before.roles) :
              RoleById(guild, r.id).permissions # r.permissions =>
                  \E n \in DOMAIN output : output[n].kind = "role" /\ output[n].id = r.id
        /\ \A c \in Range(before.channels) :
              /\ ChannelById(guild, c.id).category_id # c.category_id =>
                    NotesOf({"move"}, c.id) # {}
              /\ \A t \in ChangedTargets(before, guild, c.id) :
                    \/ NotesOf({"sync"}, c.id) # {}
                    \/ \E n \in NotesOf({"overwrite", "remove"}, c.id) : output[n].target = t

\* the handler of a join of the user ends in this step, in the given way
JoinEnds(user, last) ==
    /\ persistence'.session[user].last = last
    /\ persistence'.session[user].pc = "none"
    /\ \/ persistence.session[user].pc = "add_roles"
       \/ ~persistence.members[user].present /\ persistence'.members[user].present

\* the user leaves in this step
Leaves(user) == persistence.members[user].present /\ ~persistence'.members[user].present

\* the stored roles of the user that get_role found in the guild: those of
\* the join in progress, or else those a join starting now would find
ExistingStored(user) ==
    IF persistence.session[user].pc = "add_roles" THEN persistence.session[user].roles
    ELSE StoredRoles(persistence, user) \cap persistence.roles

\* C21: over member-leave and member-join events, stored rows of a member
\* are deleted only by a join in which a stored role still exists in the guild
\* and add_roles succeeded; a join with no stored role left in the guild, or
\* one whose add_roles fails, leaves the member's rows as they were; a leave
\* adds exactly the member's roles that are in conf.roles, and no row is ever
\* stored twice
RolePersistence ==
    [][\A user \in Users :
        LET old == StoredRoles(persistence, user)
            new == StoredRoles(persistence', user)
        IN  /\ (old \ new # {}) =>
                  /\ JoinEnds(user, "committed")
                  /\ ExistingStored(user) # {}
                  /\ ExistingStored(user) \subseteq persistence'.members[user].roles
            /\ JoinEnds(user, "returned") => (new = old /\ ExistingStored(user) = {})
            /\ JoinEnds(user, "raised") => (new = old /\ ExistingStored(user) # {})
            /\ Leaves(user) =>
                  new = old \cup (persistence.members[user].roles \cap persistence.conf)
            /\ (~Leaves(user) /\ ~JoinEnds(user, "committed")) => new = old
            /\ \A r \in RoleIds : persistence'.member_roles[<<user, r>>] <= 1
      ]_vars

\* a member with stored roles has rejoined after one of them was deleted and
\* has been given back the other, the rows being deleted, after an earlier
\* rejoin whose add_roles failed
RejoinedAfterFailure ==
    \E user \in Users :
        /\ persistence.session[user].last = "committed"
        /\ persistence.members[user].present
        /\ persistence.members[user].roles # {}
        /\ StoredRoles(persistence, user) = {}
        /\ persistence.roles # RoleIds
        /\ \E u \in Users \ {user} :
              /\ persistence.session[u].last = "raised"
              /\ StoredRoles(persistence, u) # {}

\* C22: the truncation loop of the sql command never raises, whatever the
\* statements returned: it ends normally also when every result is down to
\* its "..." marker and the total is still above 2000
TruncationLoopEnds == sql.error.type # "IndexError"
====
